---------------------------- MODULE Spec2Model ----------------------------
(***************************************************************************)
(* SPHFluidSimulator (src/src/fluid_physics/sph_simulator.py) as a state   *)
(* machine.                                                                *)
(*                                                                         *)
(* Arithmetic.  The code computes in floating point; the model computes    *)
(* in fixed point over the integers: every assignment statement of the     *)
(* code is evaluated exactly and rounded once, toward zero (Quot), and     *)
(* np.linalg.norm is the integer square root (ISqrt), so that r < h and    *)
(* r2 < h2 select the same pairs, as they do in the code.  Lengths are in  *)
(* units of 0.1, so the domain [-1.0, 1.0] of BOUNDARY_CONFIG is           *)
(* [-10, 10], the restitution 0.3 is 3/10 and the damping 0.95 is 19/20.   *)
(* A float that is NaN is the particle flag nan (all components of its     *)
(* position and velocity are NaN together wherever the code produces one). *)
(*                                                                         *)
(* SpatialHashGrid (src/src/utils/helpers.py), which the simulator does    *)
(* not use, is modelled next to it, with its own positions and units.      *)
(*                                                                         *)
(* Specifications: Spec (one caller, whole calls), SpecConc (update one    *)
(* loop iteration at a time, other calls in between), SpecPair (two        *)
(* instances), SpecConfig (the instance is built from one of several       *)
(* config dicts), SpecGrid (one caller of a SpatialHashGrid), SpecWired    *)
(* (SpecConfig with a grid filled from the particles) and SpecApp and      *)
(* SpecAppFair (the main loop of src/main.py).                             *)
(***************************************************************************)
EXTENDS Integers, Sequences, FiniteSets, TLC

VARIABLES
    sim,      \* the simulator instance (self): configuration fields and particles
    sim2,     \* a second, independent instance built from the same configuration
    hist,     \* the calls made on sim, oldest first
    hist2,    \* the calls made on sim2, oldest first
    snap,     \* the array last returned to a caller by a getter on sim
    pc,       \* position of the update call in flight on sim: "idle" between ticks
    cur,      \* index of the particle the stage in flight processes next
    stale,    \* the stage in flight iterates a list that reset has replaced
    pre,      \* sim when the update in flight was entered
    err,      \* the last update on sim raised ZeroDivisionError
    grid,     \* SpatialHashGrid.grid: the dict from cell to the list of ids inserted
    placed,   \* the positions inserted into the grid since the last clear, by id
    found,    \* the last query made on the grid and the list it returned
    app       \* the ARFluidVisionApp instance that owns sim, its camera and its window

\* the SpatialHashGrid instance and what its caller holds
gridVars == <<grid, placed, found>>

vars == <<sim, sim2, hist, hist2, snap, pc, cur, stale, pre, err, gridVars, app>>

-----------------------------------------------------------------------------
(* Bounds of the model *)

\* particles requested by the configuration the instances are built from
NumParticles == 2

\* calls made on one instance in one behaviour
MaxOps == 4

\* calls made on each of two instances run side by side
MaxPairOps == 2

\* calls made on an instance built from one of Configs, __init__ included
MaxConfigOps == 4

-----------------------------------------------------------------------------
(* Fixed-point helpers *)

\* a / b rounded toward zero, b > 0
Quot(a, b) == IF a >= 0 THEN a \div b ELSE -((-a) \div b)

Zero3 == <<0, 0, 0>>

VAdd(u, v) == <<u[1] + v[1], u[2] + v[2], u[3] + v[3]>>

VSub(u, v) == <<u[1] - v[1], u[2] - v[2], u[3] - v[3]>>

VScale(k, v) == <<k * v[1], k * v[2], k * v[3]>>

VQuot(v, d) == <<Quot(v[1], d), Quot(v[2], d), Quot(v[3], d)>>

Dot(u, v) == u[1] * v[1] + u[2] * v[2] + u[3] * v[3]

\* np.linalg.norm of a vector whose squared length is n
ISqrt(n) == CHOOSE r \in 0..n : r * r <= n /\ (r + 1) * (r + 1) > n

Norm(v) == ISqrt(Dot(v, v))

\* int(np.ceil(n ** (1/3)))
CeilCbrt(n) == CHOOSE m \in 0..n : m * m * m >= n /\ (m = 0 \/ (m - 1) * (m - 1) * (m - 1) < n)

-----------------------------------------------------------------------------
(* config.py *)

FLUID_CONFIG ==
    [num_particles    |-> NumParticles,
     particle_mass    |-> 1,
     rest_density     |-> 128,
     gas_constant     |-> 20,
     viscosity        |-> 1,
     gravity          |-> <<0, -10, 0>>,
     smoothing_radius |-> 5,
     time_step        |-> 1,
     damping          |-> [num |-> 19, den |-> 20]]

BOUNDARY_CONFIG ==
    [min_bounds  |-> <<-10, -10, -10>>,
     max_bounds  |-> <<10, 10, 10>>,
     restitution |-> [num |-> 3, den |-> 10]]

-----------------------------------------------------------------------------
(* Inputs *)

\* the (position, radius, force) requests callers make
ForceRequests ==
    <<[position |-> <<-4, 1, -4>>, radius |-> 4, force |-> <<10, 0, 0>>],
      [position |-> <<0, 0, 0>>,   radius |-> 8, force |-> <<0, 40, 0>>]>>

\* the dt arguments callers pass to update: None, or an override
DtArgs == {<<>>, <<2>>}

\* the vector a caller stores into an array it was handed
Scribble == <<7, 7, 7>>

NoSnap == [kind |-> "none", view |-> FALSE, data |-> <<>>]

\* a call: req is the index of the request of add_external_force, or of the
\* configuration of __init__
Call(op, dtArg, req) == [op |-> op, dt |-> dtArg, req |-> req]

\* the config dicts callers construct simulators with: FLUID_CONFIG; one,
\* three, eight and nine particles (1 and 8 are perfect cubes); one isolated
\* particle without damping and viscosity, at
\* two rest densities; dicts with smoothing_radius 0, a negative damping
\* and particle_mass 0; and one with particle_mass 2
Configs ==
    <<FLUID_CONFIG,
      [FLUID_CONFIG EXCEPT !.num_particles = 1],
      [FLUID_CONFIG EXCEPT !.num_particles = 3],
      [FLUID_CONFIG EXCEPT !.num_particles = 8],
      [FLUID_CONFIG EXCEPT !.num_particles = 9],
      [FLUID_CONFIG EXCEPT !.num_particles = 1, !.viscosity = 0,
                           !.damping = [num |-> 1, den |-> 1]],
      [FLUID_CONFIG EXCEPT !.num_particles = 1, !.viscosity = 0,
                           !.damping = [num |-> 1, den |-> 1], !.rest_density = 100],
      [FLUID_CONFIG EXCEPT !.smoothing_radius = 0],
      [FLUID_CONFIG EXCEPT !.damping = [num |-> -1, den |-> 2]],
      [FLUID_CONFIG EXCEPT !.particle_mass = 0],
      [FLUID_CONFIG EXCEPT !.particle_mass = 2]>>

-----------------------------------------------------------------------------
(* Particle and SPHFluidSimulator.__init__ *)

Particle(position) ==
    [position |-> position,
     velocity |-> Zero3,
     force    |-> Zero3,
     density  |-> 0,
     pressure |-> 0,
     mass     |-> FLUID_CONFIG.particle_mass,
     nan      |-> FALSE]

\* the grid slot (i, j, k) of the count-th particle created, count from 0:
\* k runs fastest, then j, then i
GridSlot(count, ppd) ==
    <<count \div (ppd * ppd), (count \div ppd) % ppd, count % ppd>>

\* InitialParticles that fills whole cubes only: a count that is no perfect
\* cube is cut down to the largest cube below it
InitialParticlesWholeCubes(s) ==
    LET ppd     == CeilCbrt(s.num_particles)
        kept    == IF ppd * ppd * ppd = s.num_particles THEN s.num_particles
                   ELSE (ppd - 1) * (ppd - 1) * (ppd - 1)
        side    == IF kept = s.num_particles THEN ppd ELSE ppd - 1
        spacing == Quot(s.smoothing_radius * 8, 10)
        at(c)   == LET g == GridSlot(c, side)
                   IN  <<Quot((2 * g[1] - side) * spacing, 2),
                         Quot((2 * g[2] - side) * spacing, 2) + 5,
                         Quot((2 * g[3] - side) * spacing, 2)>>
    IN  [n \in 1..kept |-> Particle(at(n - 1))]

\* _initialize_particles: the particle list, a function of the instance's
\* num_particles and smoothing_radius alone
InitialParticles(s) ==
    LET ppd     == CeilCbrt(s.num_particles)
        spacing == Quot(s.smoothing_radius * 8, 10)
        at(c)   == LET g == GridSlot(c, ppd)
                   IN  <<Quot((2 * g[1] - ppd) * spacing, 2),
                         Quot((2 * g[2] - ppd) * spacing, 2) + 5,
                         Quot((2 * g[3] - ppd) * spacing, 2)>>
    IN  [n \in 1..s.num_particles |-> Particle(at(n - 1))]

\* the kernel normalisation constants in model units (the code computes them
\* from h, which no operation changes): 315/(64 pi h^9) > 0, -45/(pi h^6) < 0
\* and 45/(pi h^6), the negative of the spiky constant
Poly6Constant == [num |-> 1, den |-> 125]

SpikyConstant == -1920

ViscosityConstant == 1920

Construct(config) ==
    LET s0 == [config             |-> config,
               boundary_config    |-> BOUNDARY_CONFIG,
               particles          |-> <<>>,
               num_particles      |-> config.num_particles,
               rest_density       |-> config.rest_density,
               gas_constant       |-> config.gas_constant,
               viscosity          |-> config.viscosity,
               gravity            |-> config.gravity,
               smoothing_radius   |-> config.smoothing_radius,
               h                  |-> config.smoothing_radius,
               h2                 |-> config.smoothing_radius * config.smoothing_radius,
               dt                 |-> config.time_step,
               damping            |-> config.damping,
               poly6_constant     |-> Poly6Constant,
               spiky_constant     |-> SpikyConstant,
               viscosity_constant |-> ViscosityConstant]
    IN  [s0 EXCEPT !.particles = InitialParticles(s0)]

\* 315.0 / (64.0 * np.pi * self.h ** 9) divides two Python floats: with h = 0
\* it raises ZeroDivisionError.  __init__ has no other statement that can
\* raise on the values of Configs, and no check of any value
ConstructRaises(config) == config.smoothing_radius = 0

\* what the caller holds when __init__ raised
NoInstance == [raised |-> "ZeroDivisionError"]

-----------------------------------------------------------------------------
(* The kernels.  Temporaries of the code are exact; a value is rounded when *)
(* it is stored into a particle or added to an accumulator.                 *)

\* _poly6_kernel
Poly6Kernel(s, r2) ==
    IF r2 >= s.h2 THEN 0
    ELSE LET diff == s.h2 - r2
         IN  Quot(s.poly6_constant.num * diff * diff * diff, s.poly6_constant.den)

\* _spiky_gradient times the scalar coef.num / coef.den it is multiplied by
\* where it is used; r < 1e-6 is r = 0 in model units
SpikyGradient(s, r_vec, r, coef) ==
    IF r >= s.h \/ r < 1 THEN Zero3
    ELSE LET diff == s.h - r
         IN  VQuot(VScale(coef.num * s.spiky_constant * diff * diff, r_vec), coef.den * r)

\* _viscosity_laplacian
ViscosityLaplacian(s, r) ==
    IF r >= s.h THEN 0 ELSE s.viscosity_constant * (s.h - r)

-----------------------------------------------------------------------------
(* The three stages of update, one particle at a time.  p is the particle   *)
(* the outer loop holds, ps the list self.particles the inner loop reads.   *)

\* a comparison with a NaN operand is False: a NaN particle is nobody's neighbour
Near2(s, p, q) ==
    /\ ~p.nan
    /\ ~q.nan
    /\ Dot(VSub(p.position, q.position), VSub(p.position, q.position)) < s.h2

\* DensityOf with the particle itself skipped, as the force loop skips it
DensityOfNoSelf(s, p, ps) ==
    LET term(q) == IF Near2(s, p, q) /\ q # p
                   THEN p.mass * Poly6Kernel(s, Dot(VSub(p.position, q.position),
                                                    VSub(p.position, q.position)))
                   ELSE 0
        acc[j \in 0..Len(ps)] == IF j = 0 THEN 0 ELSE acc[j - 1] + term(ps[j])
    IN  acc[Len(ps)]

\* _compute_density_pressure, body of the outer loop
DensityOf(s, p, ps) ==
    LET term(q) == IF Near2(s, p, q)
                   THEN p.mass * Poly6Kernel(s, Dot(VSub(p.position, q.position),
                                                    VSub(p.position, q.position)))
                   ELSE 0
        acc[j \in 0..Len(ps)] == IF j = 0 THEN 0 ELSE acc[j - 1] + term(ps[j])
    IN  acc[Len(ps)]

\* DensityStep with the pressure taken from the density slot of the first
\* particle of the list
DensityStepFirstPressure(s, i) ==
    LET p == s.particles[i]
        d == DensityOf(s, p, s.particles)
    IN  [s EXCEPT !.particles[i].density  = d,
                  !.particles[i].pressure =
                      s.gas_constant * (IF i = 1 THEN d ELSE s.particles[1].density)]

DensityStep(s, i) ==
    LET p == s.particles[i]
        d == DensityOf(s, p, s.particles)
    IN  [s EXCEPT !.particles[i].density  = d,
                  !.particles[i].pressure = s.gas_constant * (d - s.rest_density)]

\* the neighbours the force loop of particle i acts on: r < h, not itself
ForceNeighbours(s, i) ==
    {j \in 1..Len(s.particles) :
        /\ j # i
        /\ ~s.particles[i].nan
        /\ ~s.particles[j].nan
        /\ Norm(VSub(s.particles[i].position, s.particles[j].position)) < s.h}

\* (particle.pressure + neighbor.pressure) / (2.0 * neighbor.density): a
\* density is 0.0 only in a list no density stage has processed, where every
\* pressure and density is still the Python float of Particle.__init__, and
\* a division of Python floats by 0.0 raises ZeroDivisionError
ForceFault(s, i) ==
    \E j \in ForceNeighbours(s, i) : s.particles[j].density = 0

PressureContribution(s, p, q) ==
    LET r_vec == VSub(p.position, q.position)
        r     == Norm(r_vec)
    IN  SpikyGradient(s, r_vec, r,
                      [num |-> p.mass * (p.pressure + q.pressure), den |-> 2 * q.density])

ViscosityContribution(s, p, q) ==
    LET r == Norm(VSub(p.position, q.position))
    IN  VQuot(VScale(s.viscosity * p.mass * ViscosityLaplacian(s, r),
                     VSub(q.velocity, p.velocity)),
              q.density)

\* ForceStep with a _spiky_gradient that lacks the test r < 1e-6: for a
\* neighbour at r = 0 it computes r_vec / r = 0/0, NaN, and with the force
\* the particle becomes NaN
ForceStepNoEpsilon(s, i) ==
    LET p  == s.particles[i]
        nb == ForceNeighbours(s, i)
        pressure_force[j \in 0..Len(s.particles)] ==
            IF j = 0 THEN Zero3
            ELSE IF j \in nb
                 THEN VAdd(pressure_force[j - 1], PressureContribution(s, p, s.particles[j]))
                 ELSE pressure_force[j - 1]
        viscosity_force[j \in 0..Len(s.particles)] ==
            IF j = 0 THEN Zero3
            ELSE IF j \in nb
                 THEN VAdd(viscosity_force[j - 1], ViscosityContribution(s, p, s.particles[j]))
                 ELSE viscosity_force[j - 1]
    IN  [s EXCEPT !.particles[i].force =
            VAdd(VAdd(pressure_force[Len(s.particles)], viscosity_force[Len(s.particles)]),
                 VScale(p.density, s.gravity)),
                  !.particles[i].nan =
            \E j \in nb : s.particles[j].position = p.position]

\* ForceStep with the gravity term not multiplied by the density
ForceStepGravityUnscaled(s, i) ==
    LET p  == s.particles[i]
        nb == ForceNeighbours(s, i)
        pressure_force[j \in 0..Len(s.particles)] ==
            IF j = 0 THEN Zero3
            ELSE IF j \in nb
                 THEN VAdd(pressure_force[j - 1], PressureContribution(s, p, s.particles[j]))
                 ELSE pressure_force[j - 1]
        viscosity_force[j \in 0..Len(s.particles)] ==
            IF j = 0 THEN Zero3
            ELSE IF j \in nb
                 THEN VAdd(viscosity_force[j - 1], ViscosityContribution(s, p, s.particles[j]))
                 ELSE viscosity_force[j - 1]
    IN  [s EXCEPT !.particles[i].force =
            VAdd(VAdd(pressure_force[Len(s.particles)], viscosity_force[Len(s.particles)]),
                 s.gravity)]

\* _compute_forces, body of the outer loop (no neighbour density is 0)
ForceStep(s, i) ==
    LET p  == s.particles[i]
        nb == ForceNeighbours(s, i)
        pressure_force[j \in 0..Len(s.particles)] ==
            IF j = 0 THEN Zero3
            ELSE IF j \in nb
                 THEN VAdd(pressure_force[j - 1], PressureContribution(s, p, s.particles[j]))
                 ELSE pressure_force[j - 1]
        viscosity_force[j \in 0..Len(s.particles)] ==
            IF j = 0 THEN Zero3
            ELSE IF j \in nb
                 THEN VAdd(viscosity_force[j - 1], ViscosityContribution(s, p, s.particles[j]))
                 ELSE viscosity_force[j - 1]
    IN  [s EXCEPT !.particles[i].force =
            VAdd(VAdd(pressure_force[Len(s.particles)], viscosity_force[Len(s.particles)]),
                 VScale(p.density, s.gravity))]

\* HandleBoundaries without its elif branch: only the lower bound is enforced
HandleBoundariesMinOnly(s, p) ==
    LET lo  == s.boundary_config.min_bounds
        e   == s.boundary_config.restitution
        pos == [a \in 1..3 |-> IF p.position[a] < lo[a] THEN lo[a] ELSE p.position[a]]
        vel == [a \in 1..3 |-> IF p.position[a] < lo[a]
                               THEN Quot(-(e.num * p.velocity[a]), e.den)
                               ELSE p.velocity[a]]
    IN  [p EXCEPT !.position = <<pos[1], pos[2], pos[3]>>,
                  !.velocity = <<vel[1], vel[2], vel[3]>>]

\* HandleBoundaries reflecting the whole velocity when any axis is out of
\* bounds
HandleBoundariesFlipAll(s, p) ==
    LET lo  == s.boundary_config.min_bounds
        hi  == s.boundary_config.max_bounds
        e   == s.boundary_config.restitution
        out == \E a \in 1..3 : p.position[a] < lo[a] \/ p.position[a] > hi[a]
        pos == [a \in 1..3 |-> IF p.position[a] < lo[a] THEN lo[a]
                               ELSE IF p.position[a] > hi[a] THEN hi[a]
                               ELSE p.position[a]]
        vel == [a \in 1..3 |-> IF out THEN Quot(-(e.num * p.velocity[a]), e.den)
                               ELSE p.velocity[a]]
    IN  [p EXCEPT !.position = <<pos[1], pos[2], pos[3]>>,
                  !.velocity = <<vel[1], vel[2], vel[3]>>]

\* HandleBoundaries that clamps the position and leaves the velocity
HandleBoundariesClampOnly(s, p) ==
    LET lo  == s.boundary_config.min_bounds
        hi  == s.boundary_config.max_bounds
        pos == [a \in 1..3 |-> IF p.position[a] < lo[a] THEN lo[a]
                               ELSE IF p.position[a] > hi[a] THEN hi[a]
                               ELSE p.position[a]]
    IN  [p EXCEPT !.position = <<pos[1], pos[2], pos[3]>>]

\* _handle_boundaries: per axis, clamp, then reflect the velocity
HandleBoundaries(s, p) ==
    LET lo  == s.boundary_config.min_bounds
        hi  == s.boundary_config.max_bounds
        e   == s.boundary_config.restitution
        pos == [a \in 1..3 |-> IF p.position[a] < lo[a] THEN lo[a]
                               ELSE IF p.position[a] > hi[a] THEN hi[a]
                               ELSE p.position[a]]
        vel == [a \in 1..3 |-> IF p.position[a] < lo[a] \/ p.position[a] > hi[a]
                               THEN Quot(-(e.num * p.velocity[a]), e.den)
                               ELSE p.velocity[a]]
    IN  [p EXCEPT !.position = <<pos[1], pos[2], pos[3]>>,
                  !.velocity = <<vel[1], vel[2], vel[3]>>]

\* IntegrateParticle moving the particle with the velocity it has before the
\* damping is applied
IntegrateParticleMoveUndamped(s, p) ==
    IF p.nan \/ p.density = 0
    THEN [p EXCEPT !.nan = TRUE, !.position = Zero3, !.velocity = Zero3]
    ELSE LET v1 == VAdd(p.velocity, VQuot(VScale(s.dt, p.force), p.density))
             v2 == VQuot(VScale(s.damping.num, v1), s.damping.den)
             x2 == VAdd(p.position, VScale(s.dt, v1))
         IN  HandleBoundaries(s, [p EXCEPT !.velocity = v2, !.position = x2])

\* _integrate, body of the loop.  force / 0.0 is NaN (numpy only warns), and
\* NaN passes both comparisons of _handle_boundaries unclamped
IntegrateParticle(s, p) ==
    IF p.nan \/ p.density = 0
    THEN [p EXCEPT !.nan = TRUE, !.position = Zero3, !.velocity = Zero3]
    ELSE LET v1 == VAdd(p.velocity, VQuot(VScale(s.dt, p.force), p.density))
             v2 == VQuot(VScale(s.damping.num, v1), s.damping.den)
             x2 == VAdd(p.position, VScale(s.dt, v2))
         IN  HandleBoundaries(s, [p EXCEPT !.velocity = v2, !.position = x2])

IntegrateStep(s, i) ==
    [s EXCEPT !.particles[i] = IntegrateParticle(s, s.particles[i])]

-----------------------------------------------------------------------------
(* The public operations, each as one call *)

\* SetDt with the time step kept in one place for all instances: without an
\* override the step last set on the first instance is used
SetDtShared(s, dtArg) ==
    IF dtArg # <<>> THEN [s EXCEPT !.dt = dtArg[1]] ELSE [s EXCEPT !.dt = sim.dt]

\* update's dt argument: <<>> is None, <<d>> the override d
SetDt(s, dtArg) == IF dtArg # <<>> THEN [s EXCEPT !.dt = dtArg[1]] ELSE s

DensityStage(s) ==
    LET f[k \in 0..Len(s.particles)] == IF k = 0 THEN s ELSE DensityStep(f[k - 1], k)
    IN  f[Len(s.particles)]

\* the particle at which _compute_forces raises, 0 if it does not
FirstFault(s) ==
    IF \E i \in 1..Len(s.particles) : ForceFault(s, i)
    THEN CHOOSE i \in 1..Len(s.particles) :
            ForceFault(s, i) /\ \A k \in 1..(i - 1) : ~ForceFault(s, k)
    ELSE 0

\* _compute_forces up to the particle that raises, or to the end
ForceStage(s) ==
    LET last == IF FirstFault(s) = 0 THEN Len(s.particles) ELSE FirstFault(s) - 1
        f[k \in 0..Len(s.particles)] == IF k = 0 THEN s ELSE ForceStep(f[k - 1], k)
    IN  f[last]

IntegrateStage(s) ==
    LET f[k \in 0..Len(s.particles)] == IF k = 0 THEN s ELSE IntegrateStep(f[k - 1], k)
    IN  f[Len(s.particles)]

\* AddExternalForceOp without the test distance < radius
AddExternalForceAll(s, position, radius, force) ==
    [s EXCEPT !.particles =
        [n \in 1..Len(s.particles) |->
            [s.particles[n] EXCEPT !.velocity =
                VAdd(s.particles[n].velocity,
                     VQuot(VScale((radius - Norm(VSub(s.particles[n].position, position)))
                                     * s.dt, force), radius))]]]

\* ForcedParticle without the falloff: the full force x dt anywhere within
\* the radius
ForcedParticleNoFalloff(s, p, position, radius, force) ==
    IF ~p.nan /\ Norm(VSub(p.position, position)) < radius
    THEN [p EXCEPT !.velocity = VAdd(p.velocity, VScale(s.dt, force))]
    ELSE p

\* add_external_force(position, radius, force)
ForcedParticle(s, p, position, radius, force) ==
    LET distance == Norm(VSub(p.position, position))
    IN  IF ~p.nan /\ distance < radius
        THEN [p EXCEPT !.velocity =
                 VAdd(p.velocity, VQuot(VScale((radius - distance) * s.dt, force), radius))]
        ELSE p

AddExternalForceOp(s, position, radius, force) ==
    [s EXCEPT !.particles =
        [n \in 1..Len(s.particles) |->
            ForcedParticle(s, s.particles[n], position, radius, force)]]

\* update(dt)
UpdateRaises(s, dtArg) == FirstFault(DensityStage(SetDt(s, dtArg))) # 0

\* UpdateOp that keeps the requests made so far and applies them again
UpdateOpReapply(s, dtArg) ==
    LET s1 == IntegrateStage(ForceStage(DensityStage(SetDt(s, dtArg))))
        f[k \in 0..Len(hist)] ==
            IF k = 0 THEN s1
            ELSE IF hist[k].op = "add_external_force"
                 THEN AddExternalForceOp(f[k - 1], ForceRequests[hist[k].req].position,
                                         ForceRequests[hist[k].req].radius,
                                         ForceRequests[hist[k].req].force)
                 ELSE f[k - 1]
    IN  f[Len(hist)]

UpdateOp(s, dtArg) ==
    LET s1 == DensityStage(SetDt(s, dtArg))
    IN  IF FirstFault(s1) # 0 THEN ForceStage(s1) ELSE IntegrateStage(ForceStage(s1))

\* ResetOp that puts the particles back and keeps their velocities
ResetKeepVelocity(s) ==
    [s EXCEPT !.particles =
        [n \in 1..Len(s.particles) |->
            [InitialParticles(s)[n] EXCEPT !.velocity = s.particles[n].velocity]]]

\* a reset that fills whole cubes only
ResetWholeCubes(s) == [s EXCEPT !.particles = InitialParticlesWholeCubes(s)]

\* reset()
ResetOp(s) == [s EXCEPT !.particles = InitialParticles(s)]

\* GetParticlePositions handing out the particles' own arrays
GetParticlePositionsView(s) ==
    [kind |-> "positions", view |-> TRUE, data |-> <<>>]

\* get_particle_positions / get_particle_velocities: np.array(list of arrays)
\* builds a new array, so the caller holds a copy (view = FALSE), not the
\* particles' own arrays
GetParticlePositions(s) ==
    [kind |-> "positions",
     view |-> FALSE,
     data |-> [n \in 1..Len(s.particles) |->
                 [v |-> s.particles[n].position, nan |-> s.particles[n].nan]]]

GetParticleVelocities(s) ==
    [kind |-> "velocities",
     view |-> FALSE,
     data |-> [n \in 1..Len(s.particles) |->
                 [v |-> s.particles[n].velocity, nan |-> s.particles[n].nan]]]

\* what a caller reads in an array a getter returned earlier
Read(s, a) ==
    IF ~a.view THEN a.data
    ELSE IF a.kind = "positions" THEN GetParticlePositions(s).data
    ELSE GetParticleVelocities(s).data

\* a caller stores the vector w into row n of an array a getter returned:
\* the array afterwards, and the simulator afterwards
StoreArray(a, n, w) ==
    IF a.view THEN a ELSE [a EXCEPT !.data[n] = [v |-> w, nan |-> FALSE]]

StoreSim(s, a, n, w) ==
    IF ~a.view THEN s
    ELSE IF a.kind = "positions"
         THEN [s EXCEPT !.particles[n].position = w, !.particles[n].nan = FALSE]
         ELSE [s EXCEPT !.particles[n].velocity = w, !.particles[n].nan = FALSE]

-----------------------------------------------------------------------------
(* SpatialHashGrid (src/src/utils/helpers.py).  Grid positions are in units *)
(* of 0.025, so the cell size 0.1 of PERFORMANCE_CONFIG is 4.               *)

\* the cell sizes grids are built with
CellSizes == {3, 4}

\* the positions callers insert and query at: negative coordinates, and
\* coordinates on cell borders (multiples of the cell size) among them
GridPoints ==
    {<<-5, -1, 0>>, <<-4, 2, 0>>, <<-1, -1, 0>>, <<0, 0, 0>>,
     <<3, 2, 0>>, <<4, 2, 0>>, <<0, -4, 1>>, <<-1, 2, -3>>}

\* the radii callers query with
QueryRadii == {3, 5}

\* particles inserted between two clears
MaxInserted == 2

\* SpatialHashGrid.__init__
SpatialHashGrid(cell_size) ==
    [cell_size |-> cell_size, grid |-> [c \in {} |-> <<>>]]

NoQuery == [position |-> Zero3, radius |-> 0, neighbors |-> <<>>, made |-> FALSE]

\* _hash_position: int() of a float drops the fraction, toward zero
HashPosition(g, position) ==
    <<Quot(position[1], g.cell_size),
      Quot(position[2], g.cell_size),
      Quot(position[3], g.cell_size)>>

\* a clear that leaves the buckets as they are
ClearOpKeep(g) == g

\* clear
ClearOp(g) == [g EXCEPT !.grid = [c \in {} |-> <<>>]]

\* an insert that replaces the bucket of the cell by the new id
InsertOpOverwrite(g, particle_id, position) ==
    [g EXCEPT !.grid = (HashPosition(g, position) :> <<particle_id>>) @@ g.grid]

\* insert(particle_id, position)
InsertOp(g, particle_id, position) ==
    LET cell == HashPosition(g, position)
    IN  IF cell \in DOMAIN g.grid
        THEN [g EXCEPT !.grid[cell] = Append(@, particle_id)]
        ELSE [g EXCEPT !.grid = (cell :> <<particle_id>>) @@ g.grid]

\* CellRadius with the quotient rounded down
CellRadiusFloor(g, radius) == radius \div g.cell_size

\* int(np.ceil(radius / self.cell_size))
CellRadius(g, radius) == (radius + g.cell_size - 1) \div g.cell_size

\* query_neighbors(position, radius): the lists of the cells within
\* cell_radius of the centre cell on every axis, appended in the order of the
\* three nested loops over dx, dy and dz
QueryNeighbors(g, position, radius) ==
    LET cell_radius == CellRadius(g, radius)
        center_cell == HashPosition(g, position)
        w           == 2 * cell_radius + 1
        inCell(cell) == IF cell \in DOMAIN g.grid THEN g.grid[cell] ELSE <<>>
        overDz(dx, dy) ==
            LET neighbors[k \in 0..w] ==
                    IF k = 0 THEN <<>>
                    ELSE neighbors[k - 1]
                         \o inCell(<<center_cell[1] + dx, center_cell[2] + dy,
                                     center_cell[3] + (k - 1) - cell_radius>>)
            IN  neighbors[w]
        overDy(dx) ==
            LET neighbors[k \in 0..w] ==
                    IF k = 0 THEN <<>>
                    ELSE neighbors[k - 1] \o overDz(dx, (k - 1) - cell_radius)
            IN  neighbors[w]
        overDx ==
            LET neighbors[k \in 0..w] ==
                    IF k = 0 THEN <<>>
                    ELSE neighbors[k - 1] \o overDy((k - 1) - cell_radius)
            IN  neighbors[w]
    IN  overDx

-----------------------------------------------------------------------------
(* ARFluidVisionApp (src/main.py): the application that owns the simulator, *)
(* the camera, the gesture recognizer and the window                        *)

\* calls the main loop makes on the simulator
MaxAppCalls == 4

\* what cv2.waitKey hands to process_input: Q, ESC, SPACE, R, D; "none" is
\* 255, no key pressed since the last waitKey
Keys == {"q", "esc", "space", "r", "d"}

\* what get_interaction_forces returns for a frame: nothing (0, no hand in
\* the frame) or the (position, force, radius) of one hand, a ForceRequests
\* index
Hands == 0..Len(ForceRequests)

\* ARFluidVisionApp.__init__; camera is CameraCapture.cap ("closed": None),
\* cleaned is whether gesture_recognizer.cleanup() has run, loc is where
\* run() stands
ARFluidVisionApp ==
    [loc        |-> "created",
     running    |-> FALSE,
     paused     |-> FALSE,
     debug_mode |-> TRUE,
     camera     |-> "closed",
     key        |-> "none",
     cleaned    |-> FALSE]

\* start(), called by run(): opened is cap.isOpened(); when it is False run
\* returns before the loop and before the try block
StartApp(a, opened) ==
    IF opened
    THEN [a EXCEPT !.camera = "delivering", !.running = TRUE, !.loc = "loop"]
    ELSE [a EXCEPT !.camera = "unopened", !.loc = "returned"]

\* stop(), the finally block of run()
StopApp(a) ==
    [a EXCEPT !.running = FALSE, !.camera = "released", !.cleaned = TRUE,
              !.loc = "stopped"]

\* process_input(key), its effect on the application; R resets the simulator
ProcessInput(a, key) ==
    IF key \in {"q", "esc"} THEN [a EXCEPT !.running = FALSE]
    ELSE IF key = "space" THEN [a EXCEPT !.paused = ~a.paused]
    ELSE IF key = "r" THEN a
    ELSE IF key = "d" THEN [a EXCEPT !.debug_mode = ~a.debug_mode]
    ELSE a

-----------------------------------------------------------------------------
(* Spec: one caller, one call at a time (main.py's loop, test_system.py) *)

Init ==
    /\ sim   = Construct(FLUID_CONFIG)
    /\ sim2  = Construct(FLUID_CONFIG)
    /\ hist  = <<>>
    /\ hist2 = <<>>
    /\ snap  = NoSnap
    /\ pc    = "idle"
    /\ cur   = 0
    /\ stale = FALSE
    /\ pre   = Construct(FLUID_CONFIG)
    /\ err   = FALSE
    /\ grid  = SpatialHashGrid(4)
    /\ placed = <<>>
    /\ found = NoQuery
    /\ app   = ARFluidVisionApp

Update(dtArg) ==
    /\ Len(hist) < MaxOps
    /\ pre'  = SetDt(sim, dtArg)
    /\ sim'  = UpdateOp(sim, dtArg)
    /\ err'  = UpdateRaises(sim, dtArg)
    /\ hist' = Append(hist, Call("update", dtArg, 0))
    /\ UNCHANGED <<sim2, hist2, snap, pc, cur, stale, gridVars, app>>

AddExternalForce(r) ==
    /\ Len(hist) < MaxOps
    /\ sim'  = AddExternalForceOp(sim, ForceRequests[r].position,
                                  ForceRequests[r].radius, ForceRequests[r].force)
    /\ hist' = Append(hist, Call("add_external_force", <<>>, r))
    /\ UNCHANGED <<sim2, hist2, snap, pc, cur, stale, pre, err, gridVars, app>>

Reset ==
    /\ Len(hist) < MaxOps
    /\ sim'   = ResetOp(sim)
    /\ stale' = (pc # "idle")
    /\ hist'  = Append(hist, Call("reset", <<>>, 0))
    /\ UNCHANGED <<sim2, hist2, snap, pc, cur, pre, err, gridVars, app>>

GetPositions ==
    /\ Len(hist) < MaxOps
    /\ snap' = GetParticlePositions(sim)
    /\ hist' = Append(hist, Call("get_particle_positions", <<>>, 0))
    /\ UNCHANGED <<sim, sim2, hist2, pc, cur, stale, pre, err, gridVars, app>>

GetVelocities ==
    /\ Len(hist) < MaxOps
    /\ snap' = GetParticleVelocities(sim)
    /\ hist' = Append(hist, Call("get_particle_velocities", <<>>, 0))
    /\ UNCHANGED <<sim, sim2, hist2, pc, cur, stale, pre, err, gridVars, app>>

\* the caller writes into the array it holds
WriteArray ==
    /\ Len(hist) < MaxOps
    /\ snap.kind # "none"
    /\ sim'  = StoreSim(sim, snap, 1, Scribble)
    /\ snap' = StoreArray(snap, 1, Scribble)
    /\ hist' = Append(hist, Call("write", <<>>, 0))
    /\ UNCHANGED <<sim2, hist2, pc, cur, stale, pre, err, gridVars, app>>

Next ==
    \/ \E dtArg \in DtArgs : Update(dtArg)
    \/ \E r \in 1..Len(ForceRequests) : AddExternalForce(r)
    \/ Reset
    \/ GetPositions
    \/ GetVelocities
    \/ WriteArray

Spec == Init /\ [][Next]_vars

-----------------------------------------------------------------------------
(* SpecConc: update runs one loop iteration at a time, and other callers'   *)
(* calls fall between its iterations.  The class holds no lock and no       *)
(* Idle/Ticking state: nothing in update, reset, add_external_force or the  *)
(* getters waits for, or refuses during, a tick in flight.  Each `for       *)
(* particle in self.particles` binds the list when the stage starts; reset  *)
(* rebinds self.particles to new Particle objects, so the rest of that      *)
(* stage works on objects the simulator no longer holds (stale), while the  *)
(* inner loops and the next stages read the new list.  A stale iteration of *)
(* _compute_forces divides the numpy floats of a particle the density stage *)
(* has processed by the 0.0 density of the new particles: numpy warns and   *)
(* yields inf or NaN, in a force of an object that is no longer held, and   *)
(* nothing is raised.  The model follows one update in flight at a time.    *)

UpdateStart(dtArg) ==
    /\ pc = "idle"
    /\ Len(hist) < MaxOps
    /\ sim'   = SetDt(sim, dtArg)
    /\ pre'   = SetDt(sim, dtArg)
    /\ pc'    = "density"
    /\ cur'   = 1
    /\ stale' = FALSE
    /\ err'   = FALSE
    /\ hist'  = Append(hist, Call("update", dtArg, 0))
    /\ UNCHANGED <<sim2, hist2, snap, gridVars, app>>

\* one iteration of the outer loop of _compute_density_pressure
DensityIteration ==
    /\ pc = "density"
    /\ sim' = IF stale THEN sim ELSE DensityStep(sim, cur)
    /\ IF cur < sim.num_particles
       THEN cur' = cur + 1 /\ UNCHANGED <<pc, stale>>
       ELSE cur' = 1 /\ pc' = "forces" /\ stale' = FALSE
    /\ UNCHANGED <<sim2, hist, hist2, snap, pre, err, gridVars, app>>

\* one iteration of the outer loop of _compute_forces; a ZeroDivisionError
\* leaves update
ForceIteration ==
    /\ pc = "forces"
    /\ IF ~stale /\ ForceFault(sim, cur)
       THEN /\ err' = TRUE
            /\ pc'  = "idle"
            /\ cur' = 0
            /\ UNCHANGED <<sim, stale>>
       ELSE /\ sim' = IF stale THEN sim ELSE ForceStep(sim, cur)
            /\ IF cur < sim.num_particles
               THEN cur' = cur + 1 /\ UNCHANGED <<pc, stale>>
               ELSE cur' = 1 /\ pc' = "integrate" /\ stale' = FALSE
            /\ UNCHANGED err
    /\ UNCHANGED <<sim2, hist, hist2, snap, pre, gridVars, app>>

\* one iteration of the loop of _integrate; after the last one update returns
IntegrateIteration ==
    /\ pc = "integrate"
    /\ sim' = IF stale THEN sim ELSE IntegrateStep(sim, cur)
    /\ IF cur < sim.num_particles
       THEN cur' = cur + 1 /\ UNCHANGED <<pc, stale>>
       ELSE cur' = 0 /\ pc' = "idle" /\ stale' = FALSE
    /\ UNCHANGED <<sim2, hist, hist2, snap, pre, err, gridVars, app>>

NextConc ==
    \/ \E dtArg \in DtArgs : UpdateStart(dtArg)
    \/ DensityIteration
    \/ ForceIteration
    \/ IntegrateIteration
    \/ \E r \in 1..Len(ForceRequests) : AddExternalForce(r)
    \/ Reset
    \/ GetPositions
    \/ GetVelocities

SpecConc == Init /\ [][NextConc]_vars

-----------------------------------------------------------------------------
(* SpecPair: two instances built from the same configuration, each called   *)
(* by its own caller                                                        *)

Update2(dtArg) ==
    /\ Len(hist2) < MaxPairOps
    /\ sim2'  = UpdateOp(sim2, dtArg)
    /\ hist2' = Append(hist2, Call("update", dtArg, 0))
    /\ UNCHANGED <<sim, hist, snap, pc, cur, stale, pre, err, gridVars, app>>

AddExternalForce2(r) ==
    /\ Len(hist2) < MaxPairOps
    /\ sim2'  = AddExternalForceOp(sim2, ForceRequests[r].position,
                                   ForceRequests[r].radius, ForceRequests[r].force)
    /\ hist2' = Append(hist2, Call("add_external_force", <<>>, r))
    /\ UNCHANGED <<sim, hist, snap, pc, cur, stale, pre, err, gridVars, app>>

Reset2 ==
    /\ Len(hist2) < MaxPairOps
    /\ sim2'  = ResetOp(sim2)
    /\ hist2' = Append(hist2, Call("reset", <<>>, 0))
    /\ UNCHANGED <<sim, hist, snap, pc, cur, stale, pre, err, gridVars, app>>

NextPair ==
    \/ \E dtArg \in DtArgs : Len(hist) < MaxPairOps /\ Update(dtArg)
    \/ \E r \in 1..Len(ForceRequests) : Len(hist) < MaxPairOps /\ AddExternalForce(r)
    \/ Len(hist) < MaxPairOps /\ Reset
    \/ \E dtArg \in DtArgs : Update2(dtArg)
    \/ \E r \in 1..Len(ForceRequests) : AddExternalForce2(r)
    \/ Reset2

SpecPair == Init /\ [][NextPair]_vars

-----------------------------------------------------------------------------
(* SpecGrid: one caller of a SpatialHashGrid, built with any of the cell    *)
(* sizes.  The caller numbers the particles it inserts 1, 2, ... and found  *)
(* is the query when the last call was a query.                             *)

InitGrid ==
    /\ sim   = Construct(FLUID_CONFIG)
    /\ sim2  = Construct(FLUID_CONFIG)
    /\ hist  = <<>>
    /\ hist2 = <<>>
    /\ snap  = NoSnap
    /\ pc    = "idle"
    /\ cur   = 0
    /\ stale = FALSE
    /\ pre   = Construct(FLUID_CONFIG)
    /\ err   = FALSE
    /\ \E cell_size \in CellSizes : grid = SpatialHashGrid(cell_size)
    /\ placed = <<>>
    /\ found = NoQuery
    /\ app   = ARFluidVisionApp

GridInsert(position) ==
    /\ Len(placed) < MaxInserted
    /\ grid'   = InsertOp(grid, Len(placed) + 1, position)
    /\ placed' = Append(placed, position)
    /\ found'  = NoQuery
    /\ UNCHANGED <<sim, sim2, hist, hist2, snap, pc, cur, stale, pre, err, app>>

GridQuery(position, radius) ==
    /\ found' = [position  |-> position,
                 radius    |-> radius,
                 neighbors |-> QueryNeighbors(grid, position, radius),
                 made      |-> TRUE]
    /\ UNCHANGED <<sim, sim2, hist, hist2, snap, pc, cur, stale, pre, err,
                   grid, placed, app>>

GridClear ==
    /\ placed # <<>>
    /\ grid'   = ClearOp(grid)
    /\ placed' = <<>>
    /\ found'  = NoQuery
    /\ UNCHANGED <<sim, sim2, hist, hist2, snap, pc, cur, stale, pre, err, app>>

NextGrid ==
    \/ \E position \in GridPoints : GridInsert(position)
    \/ \E position \in GridPoints, radius \in QueryRadii : GridQuery(position, radius)
    \/ GridClear

SpecGrid == InitGrid /\ [][NextGrid]_vars

-----------------------------------------------------------------------------
(* SpecConfig: the caller builds the simulator from one of Configs, then    *)
(* calls it as in Spec                                                      *)

InitConfig ==
    /\ sim   = NoInstance
    /\ sim2  = Construct(FLUID_CONFIG)
    /\ hist  = <<>>
    /\ hist2 = <<>>
    /\ snap  = NoSnap
    /\ pc    = "idle"
    /\ cur   = 0
    /\ stale = FALSE
    /\ pre   = NoInstance
    /\ err   = FALSE
    /\ grid  = SpatialHashGrid(4)
    /\ placed = <<>>
    /\ found = NoQuery
    /\ app   = ARFluidVisionApp

\* SPHFluidSimulator(config)
ConstructSim(c) ==
    /\ hist = <<>>
    /\ sim'  = IF ConstructRaises(Configs[c]) THEN NoInstance ELSE Construct(Configs[c])
    /\ err'  = ConstructRaises(Configs[c])
    /\ hist' = Append(hist, Call("__init__", <<>>, c))
    /\ UNCHANGED <<sim2, hist2, snap, pc, cur, stale, pre, gridVars, app>>

NextConfig ==
    \/ \E c \in 1..Len(Configs) : ConstructSim(c)
    \/ \E dtArg \in DtArgs :
          sim # NoInstance /\ Len(hist) < MaxConfigOps /\ Update(dtArg)
    \/ \E r \in 1..Len(ForceRequests) :
          sim # NoInstance /\ Len(hist) < MaxConfigOps /\ AddExternalForce(r)
    \/ sim # NoInstance /\ Len(hist) < MaxConfigOps /\ Reset

SpecConfig == InitConfig /\ [][NextConfig]_vars

-----------------------------------------------------------------------------
(* SpecWired: SpecConfig with a caller that also fills a SpatialHashGrid    *)
(* from the simulator's particles: clear, then one insert per particle in   *)
(* list order, the particle's index as its id.  The grid is built in the    *)
(* simulator's length unit.                                                 *)

\* grid.clear(); for i, p in enumerate(particles): grid.insert(i, p.position)
InsertAll(g, ps) ==
    LET filled[j \in 0..Len(ps)] ==
            IF j = 0 THEN ClearOp(g)
            ELSE InsertOp(filled[j - 1], j, ps[j].position)
    IN  filled[Len(ps)]

Rebuild(cell_size) ==
    /\ sim # NoInstance
    /\ Len(hist) < MaxConfigOps
    /\ grid'   = InsertAll(SpatialHashGrid(cell_size), sim.particles)
    /\ placed' = [n \in 1..Len(sim.particles) |-> sim.particles[n].position]
    /\ found'  = NoQuery
    /\ hist'   = Append(hist, Call("rebuild", <<>>, cell_size))
    /\ UNCHANGED <<sim, sim2, hist2, snap, pc, cur, stale, pre, err, app>>

NextWired ==
    \/ NextConfig
    \/ \E cell_size \in CellSizes : Rebuild(cell_size)

SpecWired == InitConfig /\ [][NextWired]_vars

-----------------------------------------------------------------------------
(* SpecApp: run() of ARFluidVisionApp, one loop iteration at a time, with   *)
(* the user pressing keys, hands entering the frames and the camera        *)
(* failing and recovering.  SpecAppFair: the loop keeps running.           *)

\* run() up to the loop
AppRun(opened) ==
    /\ app.loc = "created"
    /\ app' = StartApp(app, opened)
    /\ UNCHANGED <<sim, sim2, hist, hist2, snap, pc, cur, stale, pre, err, gridVars>>

\* a loop iteration in which read_frame returns None: continue
LoopSkip ==
    /\ app.loc = "loop"
    /\ app.running
    /\ app.camera = "lost"
    /\ UNCHANGED vars

\* the simulator as process_interactions leaves it: one add_external_force
\* per hand in the frame
Interacted(hand) ==
    IF hand = 0 THEN sim
    ELSE AddExternalForceOp(sim, ForceRequests[hand].position,
                            ForceRequests[hand].radius, ForceRequests[hand].force)

\* self.update() of this iteration raises; the key is then never read
IterationRaises(hand) == ~app.paused /\ UpdateRaises(Interacted(hand), <<>>)

\* the calls one iteration makes on the simulator: add_external_force when a
\* hand is in the frame, update unless paused, reset when R is read
IterationCalls(hand) ==
    (IF hand = 0 THEN <<>> ELSE <<Call("add_external_force", <<>>, hand)>>)
    \o (IF app.paused THEN <<>> ELSE <<Call("update", <<>>, 0)>>)
    \o (IF app.key = "r" /\ ~IterationRaises(hand)
        THEN <<Call("reset", <<>>, 0)>> ELSE <<>>)

\* a loop iteration with a frame: process_interactions, update, render (which
\* reads through the getters and changes nothing), waitKey and process_input;
\* an exception of update leaves the loop for the finally block
LoopIteration(hand) ==
    /\ app.loc = "loop"
    /\ app.running
    /\ app.camera = "delivering"
    /\ Len(hist) + Len(IterationCalls(hand)) <= MaxAppCalls
    /\ \E forced \in {Interacted(hand)} :
       \E raised \in {IterationRaises(hand)} :
       \E ticked \in {IF app.paused THEN forced ELSE UpdateOp(forced, <<>>)} :
          /\ sim'  = IF app.key = "r" /\ ~raised THEN ResetOp(ticked) ELSE ticked
          /\ pre'  = IF app.paused THEN pre ELSE forced
          /\ err'  = IF app.paused THEN err ELSE raised
          /\ app'  = IF raised THEN StopApp(app)
                     ELSE [ProcessInput(app, app.key) EXCEPT !.key = "none"]
    /\ hist' = hist \o IterationCalls(hand)
    /\ UNCHANGED <<sim2, hist2, snap, pc, cur, stale, gridVars>>

\* while self.running is false: the loop ends and the finally block stops
LoopExit ==
    /\ app.loc = "loop"
    /\ ~app.running
    /\ app' = StopApp(app)
    /\ UNCHANGED <<sim, sim2, hist, hist2, snap, pc, cur, stale, pre, err, gridVars>>

\* the user presses a key in the window
KeyPress(k) ==
    /\ app.loc = "loop"
    /\ app.key = "none"
    /\ app' = [app EXCEPT !.key = k]
    /\ UNCHANGED <<sim, sim2, hist, hist2, snap, pc, cur, stale, pre, err, gridVars>>

\* cap.read() starts or stops returning frames
CameraChange ==
    /\ app.loc = "loop"
    /\ app.camera \in {"delivering", "lost"}
    /\ app' = [app EXCEPT !.camera = IF @ = "delivering" THEN "lost" ELSE "delivering"]
    /\ UNCHANGED <<sim, sim2, hist, hist2, snap, pc, cur, stale, pre, err, gridVars>>

NextApp ==
    \/ \E opened \in BOOLEAN : AppRun(opened)
    \/ LoopSkip
    \/ \E hand \in Hands : LoopIteration(hand)
    \/ LoopExit
    \/ \E k \in Keys : KeyPress(k)
    \/ CameraChange

SpecApp == Init /\ [][NextApp]_vars

\* a loop iteration with a frame can be taken and changes something: this is
\* ENABLED <<\E hand \in Hands : LoopIteration(hand)>>_vars, written as the
\* guards of LoopIteration (its other conjuncts assign the primed variables)
IterationEnabled ==
    /\ app.loc = "loop"
    /\ app.running
    /\ app.camera = "delivering"
    /\ \E hand \in Hands :
          /\ Len(hist) + Len(IterationCalls(hand)) <= MaxAppCalls
          /\ IterationCalls(hand) # <<>> \/ app.key # "none"

\* this step is a loop iteration with a frame: the only steps taken with a
\* frame that make a simulator call or consume the pending key
IterationStep ==
    /\ app.loc = "loop"
    /\ app.running
    /\ app.camera = "delivering"
    /\ hist' # hist \/ (app.key # "none" /\ app'.key = "none")

\* the interpreter keeps executing run(): the exit that can be taken is
\* taken, and a loop that finds a frame again and again gets through an
\* iteration with a frame again and again, i.e.
\* SF_vars(\E hand \in Hands : LoopIteration(hand)) with ENABLED and the step
\* written as IterationEnabled and IterationStep
SpecAppFair ==
    /\ SpecApp
    /\ WF_vars(LoopExit)
    /\ (<>[]~IterationEnabled \/ []<><<IterationStep>>_vars)

-----------------------------------------------------------------------------
(* Vocabulary of the properties *)

Positions(s) == GetParticlePositions(s).data

Velocities(s) == GetParticleVelocities(s).data

\* the last call made on sim
LastOp == IF hist = <<>> THEN "none" ELSE hist[Len(hist)].op

\* this step is a call of op on sim
Calls(op) == Len(hist') = Len(hist) + 1 /\ hist'[Len(hist')].op = op

\* the three stages of one tick on s, its dt already set
Pipeline(s) == IntegrateStage(ForceStage(DensityStage(s)))

\* an update has run since construction and since the last reset
UpdatedSinceReset ==
    \E k \in 1..Len(hist) :
        /\ hist[k].op = "update"
        /\ \A m \in (k + 1)..Len(hist) : hist[m].op # "reset"

InBounds(s) ==
    \A n \in 1..Len(s.particles) :
        /\ ~s.particles[n].nan
        /\ \A a \in 1..3 :
              /\ s.boundary_config.min_bounds[a] <= s.particles[n].position[a]
              /\ s.particles[n].position[a] <= s.boundary_config.max_bounds[a]

\* what request q adds to the velocity of particle p of s
Impulse(s, p, q) ==
    LET distance == Norm(VSub(p.position, q.position))
    IN  IF ~p.nan /\ distance < q.radius
        THEN VQuot(VScale((q.radius - distance) * s.dt, q.force), q.radius)
        ELSE Zero3

\* request r changes the velocity of some particle of s
Hits(s, r) ==
    \E n \in 1..Len(s.particles) :
        ForcedParticle(s, s.particles[n], ForceRequests[r].position,
                       ForceRequests[r].radius, ForceRequests[r].force) # s.particles[n]

-----------------------------------------------------------------------------
(* C1 *)

-----------------------------------------------------------------------------
(* C2 *)

-----------------------------------------------------------------------------
(* C3 *)

\* C3: after every update every particle lies within [min_bounds, max_bounds]
\* on every axis.
C3_BoundaryContainment == LastOp = "update" => InBounds(sim)

\* an update left a particle clamped to the floor with a reflected velocity
C3_Witness ==
    /\ LastOp = "update"
    /\ \E n \in 1..Len(sim.particles) :
          /\ sim.particles[n].position[2] = sim.boundary_config.min_bounds[2]
          /\ sim.particles[n].velocity[2] > 0
    /\ \E n \in 1..Len(sim.particles) :
          sim.particles[n].position[3] = sim.boundary_config.max_bounds[3]

-----------------------------------------------------------------------------
(* C4 *)

-----------------------------------------------------------------------------
(* C5 *)

-----------------------------------------------------------------------------
(* C8 *)

\* C8: reset restores the construction-time particles: as many as at
\* construction, each at its construction position with zero velocity; a
\* second reset changes nothing.
C8_ResetRestoresConstruction ==
    LastOp = "reset" =>
        /\ Len(sim.particles) = Len(Construct(sim.config).particles)
        /\ Positions(sim) = Positions(Construct(sim.config))
        /\ \A n \in 1..Len(sim.particles) : sim.particles[n].velocity = Zero3
        /\ ResetOp(sim) = sim

\* a reset followed a request and an update with a dt override
C8_Witness ==
    /\ Len(hist) >= 3
    /\ LastOp = "reset"
    /\ \E k \in 1..Len(hist) : hist[k].op = "update" /\ hist[k].dt # <<>>
    /\ \E k \in 1..Len(hist) : hist[k].op = "add_external_force"

-----------------------------------------------------------------------------
(* C6 *)

\* what get_particle_positions ("positions") or get_particle_velocities
\* returns on s
Observed(s, kind) == IF kind = "positions" THEN Positions(s) ELSE Velocities(s)

\* C6 as claimed: what a getter returns while an update is in flight (no
\* other call having been made since the update began) is the complete
\* pre-tick state or the complete post-tick state.
C6_TickAtomicForReaders ==
    (/\ pc # "idle"
     /\ Len(hist) >= 2
     /\ hist[Len(hist) - 1].op = "update"
     /\ LastOp \in {"get_particle_positions", "get_particle_velocities"})
    => \/ snap.data = Observed(pre, snap.kind)
       \/ snap.data = Observed(Pipeline(pre), snap.kind)

-----------------------------------------------------------------------------
(* C7 *)

\* C7 as claimed: update and reset start only when no update is in flight
\* (the controller is Idle), so reset never replaces the particle list
\* between or within the density, force and integration stages of a tick.
C7_ControlOnlyWhenIdle ==
    [][(Calls("update") \/ Calls("reset")) => pc = "idle"]_vars

-----------------------------------------------------------------------------
(* C9 *)

-----------------------------------------------------------------------------
(* C10 *)

\* C10 as claimed: no public operation changes the configured values the
\* instance computes with; in particular the time step that update() without
\* an override and add_external_force use stays the configured time_step.
C10_ConfigImmutable ==
    /\ sim.dt = sim.config.time_step
    /\ sim.config = FLUID_CONFIG
    /\ [sim EXCEPT !.particles = <<>>] = [Construct(FLUID_CONFIG) EXCEPT !.particles = <<>>]

-----------------------------------------------------------------------------
(* C11 *)

\* the values of a config dict that the specification calls valid
ValidConfig(config) ==
    /\ config.smoothing_radius > 0
    /\ config.particle_mass > 0
    /\ config.damping.num >= 0

\* C11 as claimed: constructing a simulator from a configuration with
\* smoothing radius <= 0, particle mass <= 0 or a negative damping raises an
\* error and leaves the caller without an instance.
C11_InvalidConfigRejected ==
    (hist # <<>> /\ ~ValidConfig(Configs[hist[1].req])) => (sim = NoInstance /\ err)

-----------------------------------------------------------------------------
(* C12 *)

IsPerfectCube(n) == \E m \in 0..n : m * m * m = n

\* C12 as claimed: when the requested count is not a perfect cube the
\* simulator holds fewer particles than requested.
C12_TruncatedBelowRequest ==
    (sim # NoInstance /\ ~IsPerfectCube(sim.config.num_particles))
    => Len(sim.particles) < sim.config.num_particles

\* C12, amended: the simulator holds exactly the requested number of
\* particles, a perfect cube or not, without an error, at construction, after
\* every reset and after every other call; at construction and after a reset
\* they stand on pairwise different slots of the grid.
C12_CountAsRequested ==
    sim # NoInstance =>
        /\ Len(sim.particles) = sim.config.num_particles
        /\ sim.num_particles = sim.config.num_particles
        /\ ~err
        /\ LastOp \in {"__init__", "reset"} =>
              \A n, m \in 1..Len(sim.particles) :
                  n # m => sim.particles[n].position # sim.particles[m].position

\* three particles were requested, have been moved by an update, and a reset
\* has put three particles back
C12_Witness ==
    /\ sim # NoInstance
    /\ sim.config.num_particles = 3
    /\ Len(hist) >= 3
    /\ hist[Len(hist) - 1].op = "update"
    /\ LastOp = "reset"
    /\ Len(sim.particles) = 3

-----------------------------------------------------------------------------
(* C13 *)

\* C13: a request (position, radius, force) changes no position; to the
\* velocity of a particle at the position it adds force x dt, to that of a
\* particle at distance d < radius force x (1 - d/radius) x dt, to that of a
\* particle at distance radius nothing, and it leaves the velocity of a
\* particle beyond the radius as it was.
C13_Falloff ==
    [][Calls("add_external_force") =>
          LET q == ForceRequests[hist'[Len(hist')].req]
          IN  \A n \in 1..Len(sim.particles) :
                 LET p  == sim.particles[n]
                     d  == Norm(VSub(p.position, q.position))
                     dv == VSub(sim'.particles[n].velocity, p.velocity)
                 IN  /\ sim'.particles[n].position = p.position
                     /\ d = 0 => dv = VScale(sim.dt, q.force)
                     /\ d < q.radius =>
                           dv = VQuot(VScale((q.radius - d) * sim.dt, q.force), q.radius)
                     /\ d = q.radius => dv = Zero3
                     /\ d > q.radius => sim'.particles[n].velocity = p.velocity]_vars

\* the last call was a request centred on the first particle, which got
\* force x dt, with the second particle at distance radius, which got
\* nothing and still rests
C13_Witness ==
    /\ LastOp = "add_external_force"
    /\ hist[Len(hist)].req = 1
    /\ sim.particles[1].position = ForceRequests[1].position
    /\ sim.particles[1].velocity = VScale(sim.dt, ForceRequests[1].force)
    /\ Norm(VSub(sim.particles[2].position, ForceRequests[1].position))
          = ForceRequests[1].radius
    /\ sim.particles[2].velocity = Zero3

-----------------------------------------------------------------------------
(* C14 *)

\* particle n of s as _integrate has moved it when it calls
\* _handle_boundaries, s being the state the force stage left
Advanced(s, n) ==
    LET p  == s.particles[n]
        v1 == VAdd(p.velocity, VQuot(VScale(s.dt, p.force), p.density))
        v2 == VQuot(VScale(s.damping.num, v1), s.damping.den)
    IN  [p EXCEPT !.velocity = v2, !.position = VAdd(p.position, VScale(s.dt, v2))]

\* p is what boundary handling makes of m on every axis: clamped to the
\* bound and reflected where m is out of bounds, as m is elsewhere
Reflected(s, m, p) ==
    LET lo == s.boundary_config.min_bounds
        hi == s.boundary_config.max_bounds
        e  == s.boundary_config.restitution
    IN  \A a \in 1..3 :
           /\ m.position[a] < lo[a] =>
                 /\ p.position[a] = lo[a]
                 /\ p.velocity[a] = Quot(-(e.num * m.velocity[a]), e.den)
           /\ m.position[a] > hi[a] =>
                 /\ p.position[a] = hi[a]
                 /\ p.velocity[a] = Quot(-(e.num * m.velocity[a]), e.den)
           /\ (lo[a] <= m.position[a] /\ m.position[a] <= hi[a]) =>
                 /\ p.position[a] = m.position[a]
                 /\ p.velocity[a] = m.velocity[a]

\* C14: when integration has moved a particle below min (above max) on an
\* axis, update leaves that position component at exactly min (max) and that
\* velocity component multiplied by -restitution; on an axis where the
\* particle is within bounds, position and velocity are as integration left
\* them.
C14_BoundaryReflection ==
    [][Calls("update") =>
          \A s1 \in {ForceStage(DensityStage(SetDt(sim, hist'[Len(hist')].dt)))} :
             \A n \in 1..Len(sim.particles) :
                \A m \in {Advanced(s1, n)} : Reflected(sim, m, sim'.particles[n])]_vars

\* an update has put a particle on the floor with its vertical velocity
\* turned upward, while it moves on along x, inside the domain
C14_Witness ==
    /\ LastOp = "update"
    /\ \E n \in 1..Len(sim.particles) :
          /\ sim.particles[n].position[2] = sim.boundary_config.min_bounds[2]
          /\ sim.particles[n].velocity[2] > 0
          /\ sim.particles[n].velocity[1] # 0
          /\ sim.boundary_config.min_bounds[1] < sim.particles[n].position[1]
          /\ sim.particles[n].position[1] < sim.boundary_config.max_bounds[1]

-----------------------------------------------------------------------------
(* C15 *)

\* particles n and m of s are two particles at one position
Coincide(s, n, m) ==
    /\ n # m
    /\ ~s.particles[n].nan
    /\ ~s.particles[m].nan
    /\ s.particles[n].position = s.particles[m].position

\* C15: in an update that starts with two particles at one position, the
\* pressure-gradient kernel is the zero vector for that pair, each of the two
\* has a density > 0 when the forces divide by it, and the update returns
\* without raising, leaving every particle with finite position and velocity.
C15_CoincidentParticles ==
    [][Calls("update") =>
          \A s1 \in {DensityStage(SetDt(sim, hist'[Len(hist')].dt))} :
             \A n, m \in 1..Len(sim.particles) :
                Coincide(sim, n, m) =>
                   /\ m \in ForceNeighbours(s1, n)
                   /\ SpikyGradient(s1, VSub(s1.particles[n].position,
                                             s1.particles[m].position),
                                    0, [num |-> 1, den |-> 1]) = Zero3
                   /\ PressureContribution(s1, s1.particles[n], s1.particles[m]) = Zero3
                   /\ s1.particles[m].density > 0
                   /\ ~err'
                   /\ \A k \in 1..Len(sim'.particles) : ~sim'.particles[k].nan]_vars

\* the last call was an update that started with two particles at one
\* position and returned
C15_Witness ==
    /\ sim # NoInstance
    /\ LastOp = "update"
    /\ \E n, m \in 1..Len(pre.particles) : Coincide(pre, n, m)
    /\ ~err
    /\ \A k \in 1..Len(sim.particles) : ~sim.particles[k].nan

-----------------------------------------------------------------------------
(* C16 *)

\* C16: a particle with no other particle within the smoothing radius gets
\* the force gravity x density and is integrated with the acceleration
\* gravity, whatever its density and pressure: its velocity becomes
\* (v + gravity x dt) x damping, which is v + gravity x dt when damping is 1,
\* before boundary handling.
C16_FreeFall ==
    [][Calls("update") =>
          \A s0 \in {SetDt(sim, hist'[Len(hist')].dt)} :
          \A s1 \in {DensityStage(s0)} :
             \A n \in 1..Len(sim.particles) :
                (~sim.particles[n].nan /\ ForceNeighbours(s1, n) = {}) =>
                   \A v1 \in {VAdd(sim.particles[n].velocity, VScale(s0.dt, s0.gravity))} :
                   \A v2 \in {VQuot(VScale(s0.damping.num, v1), s0.damping.den)} :
                   \A m \in {HandleBoundaries(s0,
                                [sim.particles[n] EXCEPT
                                    !.velocity = v2,
                                    !.position = VAdd(@, VScale(s0.dt, v2))])} :
                      /\ sim'.particles[n].force
                            = VScale(sim'.particles[n].density, s0.gravity)
                      /\ s0.damping.num = s0.damping.den => v2 = v1
                      /\ sim'.particles[n].velocity = m.velocity
                      /\ sim'.particles[n].position = m.position]_vars

\* one particle, damping 1, a positive pressure: after the first update it
\* has fallen, unclamped, with the velocity gravity x dt
C16_Witness ==
    /\ sim # NoInstance
    /\ Len(hist) = 2
    /\ LastOp = "update"
    /\ Len(sim.particles) = 1
    /\ sim.damping.num = sim.damping.den
    /\ sim.particles[1].pressure > 0
    /\ sim.particles[1].velocity = VScale(sim.dt, sim.gravity)
    /\ sim.particles[1].position =
          VAdd(Construct(sim.config).particles[1].position,
               VScale(sim.dt, sim.particles[1].velocity))

-----------------------------------------------------------------------------
(* C17 *)

\* the ids of the inserted particles at a distance < radius of position
WithinRadius(position, radius) ==
    {id \in 1..Len(placed) :
        Dot(VSub(placed[id], position), VSub(placed[id], position)) < radius * radius}

\* C17: the list query_neighbors(position, radius) returns holds every
\* inserted particle whose distance to position is less than radius.
C17_NeighborSuperset ==
    found.made =>
        \A id \in WithinRadius(found.position, found.radius) :
            \E k \in 1..Len(found.neighbors) : found.neighbors[k] = id

\* a query has returned a particle with a negative coordinate that is within
\* the radius and in another cell than the query position, together with a
\* particle that is further away than the radius
C17_Witness ==
    /\ found.made
    /\ \E id \in WithinRadius(found.position, found.radius) :
          /\ \E a \in 1..3 : placed[id][a] < 0
          /\ HashPosition(grid, placed[id]) # HashPosition(grid, found.position)
    /\ \E k \in 1..Len(found.neighbors) :
          found.neighbors[k] \notin WithinRadius(found.position, found.radius)

-----------------------------------------------------------------------------
(* C18 *)

\* C18 as claimed: while the force stage of an update runs, every particle
\* the simulator holds has the density and pressure of the current tick, so
\* no force computation reads a density of 0 or one left from another tick.
C18_DensityForceBarrier ==
    pc = "forces" =>
        \A n \in 1..Len(sim.particles) :
            /\ sim.particles[n].density
                  = DensityOf(sim, sim.particles[n], sim.particles)
            /\ sim.particles[n].pressure
                  = sim.gas_constant * (sim.particles[n].density - sim.rest_density)

-----------------------------------------------------------------------------
(* C19 *)

InOrder(s, n, v, x) ==
    LET p  == s.particles[n]
        v1 == VAdd(v, VQuot(VScale(s.dt, p.force), p.density))
        v2 == VQuot(VScale(s.damping.num, v1), s.damping.den)
        x2 == VAdd(x, VScale(s.dt, v2))
    IN  HandleBoundaries(s, [p EXCEPT !.velocity = v2, !.position = x2])

-----------------------------------------------------------------------------
(* C20 *)

\* C20 as claimed: for each neighbour q of p with 0 < r < h, what the force
\* stage adds to p's pressure force is
\* -mass x (pressure(p) + pressure(q)) / (2 x density(q)) x gradient(r_vec, r)
\* with r_vec = p.pos - q.pos, so it points from q towards p when
\* pressure(p) + pressure(q) > 0 and towards q when it is negative.
C20_PressureRepels ==
    [][Calls("update") =>
          \A s1 \in {DensityStage(SetDt(sim, hist'[Len(hist')].dt))} :
             \A n \in 1..Len(sim.particles) : \A m \in ForceNeighbours(s1, n) :
                \A p \in {s1.particles[n]} : \A q \in {s1.particles[m]} :
                \A r_vec \in {VSub(p.position, q.position)} :
                   Norm(r_vec) > 0 =>
                      /\ PressureContribution(s1, p, q) =
                            SpikyGradient(s1, r_vec, Norm(r_vec),
                                          [num |-> -(p.mass * (p.pressure + q.pressure)),
                                           den |-> 2 * q.density])
                      /\ p.pressure + q.pressure > 0 =>
                            Dot(PressureContribution(s1, p, q), r_vec) >= 0
                      /\ p.pressure + q.pressure < 0 =>
                            Dot(PressureContribution(s1, p, q), r_vec) <= 0]_vars

-----------------------------------------------------------------------------
(* C21 *)

\* floor(position / cell_size), componentwise
FloorCell(g, position) ==
    <<position[1] \div g.cell_size,
      position[2] \div g.cell_size,
      position[3] \div g.cell_size>>

\* C21 as claimed: every inserted particle is in the bucket of the cell
\* floor(position / cell_size), and two particles share a bucket only if
\* they have the same floor cell.
C21_FloorCellAssignment ==
    /\ \A id \in 1..Len(placed) :
          /\ FloorCell(grid, placed[id]) \in DOMAIN grid.grid
          /\ \E k \in 1..Len(grid.grid[FloorCell(grid, placed[id])]) :
                grid.grid[FloorCell(grid, placed[id])][k] = id
    /\ \A cell \in DOMAIN grid.grid :
          \A j, k \in 1..Len(grid.grid[cell]) :
             FloorCell(grid, placed[grid.grid[cell][j]])
                = FloorCell(grid, placed[grid.grid[cell][k]])

-----------------------------------------------------------------------------
(* C28 *)

\* C28: a query returns no particle id twice when every id was inserted once
\* since the last clear, every id it returns was inserted since the last
\* clear and is still in the bucket of its position, and right after a
\* clear every query returns the empty list.
C28_NoDuplicateNoStale ==
    [][ /\ found'.made =>
             /\ \A j, k \in 1..Len(found'.neighbors) :
                   j # k => found'.neighbors[j] # found'.neighbors[k]
             /\ \A k \in 1..Len(found'.neighbors) :
                   /\ found'.neighbors[k] \in 1..Len(placed')
                   /\ HashPosition(grid', placed'[found'.neighbors[k]])
                         \in DOMAIN grid'.grid
             /\ (placed' = <<>> => found'.neighbors = <<>>)
        /\ (placed # <<>> /\ placed' = <<>>) =>
             \A position \in GridPoints, radius \in QueryRadii :
                QueryNeighbors(grid', position, radius) = <<>>
      ]_vars

\* a query has returned both inserted particles, taken from two buckets
C28_Witness ==
    /\ found.made
    /\ Len(placed) = 2
    /\ Len(found.neighbors) = 2
    /\ found.neighbors[1] # found.neighbors[2]
    /\ HashPosition(grid, placed[1]) # HashPosition(grid, placed[2])

-----------------------------------------------------------------------------
(* C22 *)

\* the ids a query around particle n returns, kept when the exhaustive
\* scan's distance test passes
Candidates(s, g, n) ==
    SelectSeq(QueryNeighbors(g, s.particles[n].position, s.h),
              LAMBDA id : Near2(s, s.particles[n], s.particles[id]))

\* C22: when the grid holds the simulator's particles, one insert each, the
\* distance-filtered query around every particle selects exactly the
\* particles the exhaustive scans select, and the density summed over the
\* filtered candidates is the density of the exhaustive scan.
C22_GridEqualsExhaustive ==
    (sim # NoInstance /\ LastOp = "rebuild") =>
       \A n \in 1..Len(sim.particles) :
          \A cand \in {Candidates(sim, grid, n)} :
             /\ {cand[k] : k \in 1..Len(cand)}
                   = {m \in 1..Len(sim.particles) :
                         Near2(sim, sim.particles[n], sim.particles[m])}
             /\ {cand[k] : k \in 1..Len(cand)} \ {n} = ForceNeighbours(sim, n)
             /\ DensityOf(sim, sim.particles[n],
                          [k \in 1..Len(cand) |-> sim.particles[cand[k]]])
                   = DensityOf(sim, sim.particles[n], sim.particles)

\* the grid was filled after a tick with nine particles, some of which have
\* a neighbour in another cell and a particle of a nearby cell out of reach
C22_Witness ==
    /\ sim # NoInstance
    /\ LastOp = "rebuild"
    /\ \E u \in 1..Len(hist) : hist[u].op = "update"
    /\ Len(sim.particles) = 9
    /\ \E n, m, k \in 1..9 :
          /\ m \in ForceNeighbours(sim, n)
          /\ HashPosition(grid, placed[m]) # HashPosition(grid, placed[n])
          /\ k \notin ForceNeighbours(sim, n)
          /\ k # n
          /\ \E j \in 1..Len(QueryNeighbors(grid, placed[n], sim.h)) :
                QueryNeighbors(grid, placed[n], sim.h)[j] = k

-----------------------------------------------------------------------------
(* C23 *)

\* C23 as claimed: when an update is left by an error, the positions and the
\* velocities of all particles are the ones the update started from.
C23_FaultKeepsPreTickState ==
    [][(~err /\ err') => /\ Positions(sim') = Positions(pre')
                         /\ Velocities(sim') = Velocities(pre')]_vars

-----------------------------------------------------------------------------
(* C24 *)

\* C24 as claimed: the mass of every particle of an instance is the
\* particle_mass of the configuration the instance was built from.
C24_PassedConfigOnly ==
    sim # NoInstance =>
        \A n \in 1..Len(sim.particles) :
            sim.particles[n].mass = sim.config.particle_mass

-----------------------------------------------------------------------------
(* C25 *)

\* C25: no call adds or removes a particle: after the constructor and after
\* every update, add_external_force and reset the list holds as many
\* particles as before the call, which is the configured num_particles.
C25_CountInvariant ==
    [][sim' # NoInstance =>
          /\ Len(sim'.particles) = sim'.config.num_particles
          /\ sim # NoInstance => Len(sim'.particles) = Len(sim.particles)]_vars

\* nine particles (no perfect cube) have gone through a request, an update
\* and a reset
C25_Witness ==
    /\ sim # NoInstance
    /\ sim.config.num_particles = 9
    /\ Len(sim.particles) = 9
    /\ \A op \in {"add_external_force", "update", "reset"} :
          \E k \in 1..Len(hist) : hist[k].op = op

-----------------------------------------------------------------------------
(* C26 *)

\* the orders in which the outer loop of a stage can take the particles of s
Orders(s) ==
    {o \in [1..Len(s.particles) -> 1..Len(s.particles)] :
        \A j, k \in 1..Len(s.particles) : j # k => o[j] # o[k]}

\* the outer loops of the three stages, taking the particles in order o
DensityStageIn(s, o) ==
    LET f[k \in 0..Len(o)] == IF k = 0 THEN s ELSE DensityStep(f[k - 1], o[k])
    IN  f[Len(o)]

ForceStageIn(s, o) ==
    LET f[k \in 0..Len(o)] == IF k = 0 THEN s ELSE ForceStep(f[k - 1], o[k])
    IN  f[Len(o)]

IntegrateStageIn(s, o) ==
    LET f[k \in 0..Len(o)] == IF k = 0 THEN s ELSE IntegrateStep(f[k - 1], o[k])
    IN  f[Len(o)]

\* C26: from every state, each stage of a tick leaves the same simulator
\* whatever the order in which its outer loop takes the particles, so the
\* positions and velocities after the tick do not depend on the order.
C26_OrderIndependent ==
    \A d \in {DensityStage(sim)} :
       \A f \in {ForceStage(d)} :
          \A g \in {IntegrateStage(f)} :
             \A o \in Orders(sim) :
                /\ DensityStageIn(sim, o) = d
                /\ ForceStageIn(d, o) = f
                /\ IntegrateStageIn(f, o) = g

\* an update has run on particles that were within h of each other with
\* different velocities, and the state is the one the three stages give when
\* each takes the particles last to first
C26_Witness ==
    /\ LastOp = "update"
    /\ ~err
    /\ \E n \in 1..Len(pre.particles) :
          \E m \in ForceNeighbours(pre, n) :
             pre.particles[n].velocity # pre.particles[m].velocity
    /\ \A o \in {[k \in 1..Len(pre.particles) |-> Len(pre.particles) + 1 - k]} :
          sim = IntegrateStageIn(ForceStageIn(DensityStageIn(pre, o), o), o)
    /\ Positions(sim) # Positions(pre)

-----------------------------------------------------------------------------
(* C27 *)

\* C27: on every axis on which an update (dt > 0) has moved a particle
\* below min, the velocity the update leaves on that axis is >= 0, and on
\* every axis on which it has moved it above max, <= 0.
C27_ClampedNeverOutward ==
    [][Calls("update") =>
          \A s1 \in {ForceStage(DensityStage(SetDt(sim, hist'[Len(hist')].dt)))} :
             /\ s1.dt > 0
             /\ \A n \in 1..Len(sim.particles) :
                   \A m \in {Advanced(s1, n)} :
                      \A a \in 1..3 :
                         /\ m.position[a] < sim.boundary_config.min_bounds[a]
                               => sim'.particles[n].velocity[a] >= 0
                         /\ m.position[a] > sim.boundary_config.max_bounds[a]
                               => sim'.particles[n].velocity[a] <= 0]_vars

\* an update has left one particle on the upper z bound moving back in and
\* one on the floor moving up
C27_Witness ==
    /\ LastOp = "update"
    /\ \E n \in 1..Len(sim.particles) :
          /\ sim.particles[n].position[3] = sim.boundary_config.max_bounds[3]
          /\ sim.particles[n].velocity[3] < 0
    /\ \E n \in 1..Len(sim.particles) :
          /\ sim.particles[n].position[2] = sim.boundary_config.min_bounds[2]
          /\ sim.particles[n].velocity[2] > 0

-----------------------------------------------------------------------------
(* C29 *)

\* C29 as claimed: a main-loop iteration that begins and ends with the
\* application paused and handles no R key leaves the positions and
\* velocities of all particles unchanged, whatever hand is in the frame.
C29_PausedFreezesState ==
    [][(app.loc = "loop" /\ app.paused /\ app'.paused /\ app.key # "r") =>
          /\ Positions(sim') = Positions(sim)
          /\ Velocities(sim') = Velocities(sim)]_vars

-----------------------------------------------------------------------------
(* C30 *)

\* C30 as claimed: once the loop runs, a Q or ESC key press (made while the
\* loop can still make the simulator calls of one more iteration) is
\* eventually followed by the end of the loop and stop(): camera released
\* and gesture recognizer cleaned up, whether or not frames arrive.
C30_QuitEventuallyStops ==
    (app.loc = "loop" /\ app.key \in {"q", "esc"} /\ Len(hist) + 3 <= MaxAppCalls)
    ~> (app.loc = "stopped" /\ app.camera = "released" /\ app.cleaned)

=============================================================================
